---- MODULE Spec2Model ----
(***************************************************************************)
(* Model of three CAmkES templates:                                        *)
(*   camkes/templates/seL4SharedData-to.template.c  (dataport, wrap/unwrap)*)
(*   camkes/templates/call-unmarshal-inputs.c       (call argument list)   *)
(*   camkes/templates/component.all_tcb_caps.h      (capability name table)*)
(* Each template is modelled by what its instantiation does: the dataport  *)
(* functions as operations on a component's region, the two generator      *)
(* templates as the text (token sequence) they emit and what a C compiler  *)
(* makes of that text.                                                     *)
(***************************************************************************)
EXTENDS Integers, Sequences, FiniteSets, TLC

\* ------------------------------------------------------------------------
\* Bounds of the model
\* ------------------------------------------------------------------------
PtrBits == 16        \* width of uintptr_t in the model
MaxId == 2           \* connection identifiers are 1..MaxId
MaxPages == 2        \* declared type sizes reach MaxPages pages
MaxBasePage == 2     \* regions are placed at page 1..MaxBasePage

\* ------------------------------------------------------------------------
\* Dataport region (seL4SharedData-to.template.c)
\* ------------------------------------------------------------------------
PAGE_SIZE_4K == 4096
SHM_ALIGN == 4096
NULL == 0

AddrSpace == 2 ^ PtrBits

\* conversions between uintptr_t and the signed off_t of the same width
to_uintptr(n) == n % AddrSpace
to_off_t(u) == IF u >= AddrSpace \div 2 THEN u - AddrSpace ELSE u

ROUND_UP_UNSAFE(n, b) == n + (IF n % b = 0 THEN 0 ELSE b - (n % b))

dataport_symbol_nopad(tsize) == tsize

\* sizeof(struct { char content[ROUND_UP_UNSAFE(sizeof(type), PAGE_SIZE_4K)]; })
dataport_symbol(tsize) == ROUND_UP_UNSAFE(tsize, PAGE_SIZE_4K)

Comps == {"A", "B"}
Ids == 1 .. MaxId
TypeSizes ==
    {1, PAGE_SIZE_4K - 1, PAGE_SIZE_4K + 1} \cup {k * PAGE_SIZE_4K : k \in 1 .. MaxPages}
Bases == {k * SHM_ALIGN : k \in 1 .. MaxBasePage}

VARIABLES
    dataport,    \* component -> [id, base, tsize, capacity] of its instantiation
    p,           \* the dataport_ptr_t passed between the components
    src,         \* history: which wrap produced p ("" when p was written by a peer)
    ret,         \* the last dataport call and what it returned
    input_parameters,   \* the method's input parameters given to the template
    rendered,           \* the text call-unmarshal-inputs.c emitted, as tokens
    env,                \* the values of the caller's variables named in the text
    descriptor,         \* the argument slots the called function receives
    unmarshalled,       \* <<the argument pointers the callee recovered>>, <<>> before
    slots,              \* cap_space.cnode.slots: slot index -> owner name or None
    all_tcb_caps_slots, \* cap_space.all_tcb_caps_slots
    header              \* the text component.all_tcb_caps.h emitted

dpvars == <<dataport, p, src, ret>>
callvars == <<input_parameters, rendered, env, descriptor, unmarshalled>>
capvars == <<slots, all_tcb_caps_slots, header>>
vars == <<dpvars, callvars, capvars>>

\* int <name>_wrap_ptr(dataport_ptr_t *p, void *ptr): the return code and *p
wrap_ptr_nolower(d, q, ptr) ==
    IF to_uintptr(ptr) >= to_uintptr(d.base + d.tsize)
    THEN [rc |-> -1, p |-> q]
    ELSE [rc |-> 0,
          p |-> [id |-> d.id, offset |-> to_off_t(to_uintptr(ptr - d.base))]]

wrap_ptr_rawoffset(d, q, ptr) ==
    IF to_uintptr(ptr) < d.base \/ to_uintptr(ptr) >= to_uintptr(d.base + d.tsize)
    THEN [rc |-> -1, p |-> q]
    ELSE [rc |-> 0, p |-> [id |-> d.id, offset |-> to_off_t(to_uintptr(ptr))]]

wrap_ptr(d, q, ptr) ==
    IF to_uintptr(ptr) < d.base \/ to_uintptr(ptr) >= to_uintptr(d.base + d.tsize)
    THEN [rc |-> -1, p |-> q]
    ELSE [rc |-> 0,
          p |-> [id |-> d.id, offset |-> to_off_t(to_uintptr(ptr - d.base))]]

\* void *<name>_unwrap_ptr(dataport_ptr_t *p)
unwrap_ptr_anyid(d, q) == to_uintptr(d.base + to_uintptr(q.offset))

unwrap_ptr_nobase(d, q) ==
    IF q.id = d.id THEN to_uintptr(to_uintptr(q.offset)) ELSE NULL

unwrap_ptr(d, q) ==
    IF q.id = d.id
    THEN to_uintptr(d.base + to_uintptr(q.offset))
    ELSE NULL

\* int <name>__run(void)
run_rc == 0

NoCall == [op |-> "none", comp |-> "", ptr |-> 0, rc |-> 0, val |-> 0]
NoSrc == [comp |-> "", o |-> 0]

\* addresses and offsets worth passing in: the edges of the region, of the
\* typed view and of the address space
EdgePtrs(d) ==
    {d.base - 1, d.base, d.base + d.tsize - 1, d.base + d.tsize,
     d.base + d.capacity - 1, d.base + d.capacity, AddrSpace - 1}
EdgeOffsets(d) ==
    {d.tsize - 1, d.tsize, d.capacity - 1, d.capacity, -1, -d.base}

DataportInit ==
    /\ \E ids \in [Comps -> Ids], bases \in [Comps -> Bases], types \in [Comps -> TypeSizes] :
         dataport = [c \in Comps |->
                       [id |-> ids[c], base |-> bases[c], tsize |-> types[c],
                        capacity |-> dataport_symbol(types[c])]]
    \* the components are interchangeable: A names the one with the smaller id
    /\ dataport["A"].id <= dataport["B"].id
    \* the two ends of one connection share the interface type
    /\ \A c, d \in Comps : dataport[c].id = dataport[d].id => dataport[c].tsize = dataport[d].tsize
    \* the block is an object of the address space: one past its end is an address
    /\ \A c \in Comps : dataport[c].base + dataport[c].capacity < AddrSpace
    /\ p = [id |-> 0, offset |-> 0]
    /\ src = NoSrc
    /\ ret = NoCall

Wrap(c, ptr) ==
    LET r == wrap_ptr(dataport[c], p, ptr) IN
    /\ p' = r.p
    /\ src' = IF r.rc = 0 THEN [comp |-> c, o |-> ptr - dataport[c].base] ELSE src
    /\ ret' = [op |-> "wrap", comp |-> c, ptr |-> ptr, rc |-> r.rc, val |-> 0]
    /\ UNCHANGED <<dataport>>

Unwrap(c) ==
    /\ ret' = [op |-> "unwrap", comp |-> c, ptr |-> 0, rc |-> 0,
               val |-> unwrap_ptr(dataport[c], p)]
    /\ UNCHANGED <<dataport, p, src>>

\* the peer writes any bit pattern it likes into the dataport_ptr_t
PeerWrite(id, off) ==
    /\ p' = [id |-> id, offset |-> off]
    /\ src' = NoSrc
    /\ ret' = NoCall
    /\ UNCHANGED <<dataport>>

Run(c) ==
    /\ ret' = [op |-> "run", comp |-> c, ptr |-> 0, rc |-> run_rc, val |-> 0]
    /\ UNCHANGED <<dataport, p, src>>

\* the parts of the state a specification does not exercise stay empty
DataportIdle ==
    /\ dataport = <<>> /\ p = [id |-> 0, offset |-> 0] /\ src = NoSrc /\ ret = NoCall
CallIdle ==
    /\ input_parameters = <<>> /\ rendered = <<>> /\ env = <<>> /\ descriptor = <<>>
    /\ unmarshalled = <<>>
CapIdle ==
    /\ slots = <<>> /\ all_tcb_caps_slots = {} /\ header = <<>>

InitDataport == DataportInit /\ CallIdle /\ CapIdle

NextWrap == \E c \in Comps : \E ptr \in EdgePtrs(dataport[c]) : Wrap(c, ptr)
NextUnwrap == \E c \in Comps : Unwrap(c)
NextPeerWrite ==
    \E id \in {0} \cup {dataport[c].id : c \in Comps} : \E off \in UNION {EdgeOffsets(dataport[c]) : c \in Comps} :
        PeerWrite(id, off)
NextRun == \E c \in Comps : Run(c)

NextDataport ==
    (NextWrap \/ NextUnwrap \/ NextPeerWrite \/ NextRun) /\ UNCHANGED <<callvars, capvars>>

SpecDataport == InitDataport /\ [][NextDataport]_vars

\* ------------------------------------------------------------------------
\* Call argument list (call-unmarshal-inputs.c)
\* ------------------------------------------------------------------------
MaxParams == 3       \* parameters per method
MaxPtr == 2          \* values a caller's variable can hold are 1..MaxPtr

Ptrs == 1 .. MaxPtr

\* tokens of the emitted text
Fn == [k |-> "function", n |-> 0]
LParen == [k |-> "(", n |-> 0]
RParen == [k |-> ")", n |-> 0]
Comma == [k |-> ",", n |-> 0]
SizeVar == [k |-> "size", n |-> 0]
SzPtrVar(name) == [k |-> "_sz_ptr", n |-> name]
PtrVar(name) == [k |-> "_ptr", n |-> name]
IsExpr(t) == t.k \in {"size", "_sz_ptr", "_ptr"}

\* body of the for loop, lines 14-20
loop_body_trailing_comma(pm, last) ==
    (IF pm.array THEN <<SzPtrVar(pm.name), Comma>> ELSE <<>>)
        \o <<PtrVar(pm.name)>> \o <<Comma>>

loop_body_swapped(pm, last) ==
    (IF pm.array THEN <<PtrVar(pm.name), Comma, SzPtrVar(pm.name)>>
                 ELSE <<PtrVar(pm.name)>>)
        \o (IF ~last THEN <<Comma>> ELSE <<>>)

loop_body(pm, last) ==
    (IF pm.array THEN <<SzPtrVar(pm.name), Comma>> ELSE <<>>)
        \o <<PtrVar(pm.name)>>
        \o (IF ~last THEN <<Comma>> ELSE <<>>)

RECURSIVE for_loop(_, _)
for_loop(ps, i) ==
    IF i > Len(ps) THEN <<>> ELSE loop_body(ps[i], i = Len(ps)) \o for_loop(ps, i + 1)

\* the whole template, lines 8-22
call_unmarshal_inputs(ps) ==
    <<Fn, LParen, SizeVar>>
        \o (IF Len(ps) > 0 THEN <<Comma>> ELSE <<>>)
        \o for_loop(ps, 1)
        \o <<RParen>>

\* what the C compiler makes of the text: a call whose argument list is a
\* comma separated list of expressions, none empty
IsCall(toks) ==
    /\ Len(toks) >= 4 /\ Len(toks) % 2 = 0
    /\ toks[1] = Fn /\ toks[2] = LParen /\ toks[Len(toks)] = RParen
    /\ \A i \in 3 .. Len(toks) - 1 :
         IF i % 2 = 1 THEN IsExpr(toks[i]) ELSE toks[i] = Comma
CArgs(toks) == [j \in 1 .. (Len(toks) - 2) \div 2 |-> toks[2 * j + 1]]
CEval(toks, e) == [j \in 1 .. Len(CArgs(toks)) |-> e[CArgs(toks)[j]]]

\* the unmarshalling function the emitted call invokes: it walks the same
\* parameter list over the slots after the size
Slot(desc, k) == IF k \in 1 .. Len(desc) THEN desc[k] ELSE -1
RECURSIVE decode_from(_, _, _)
decode_from(desc, ps, k) ==
    IF ps = <<>> THEN <<>>
    ELSE IF Head(ps).array
         THEN <<Slot(desc, k), Slot(desc, k + 1)>> \o decode_from(desc, Tail(ps), k + 2)
         ELSE <<Slot(desc, k)>> \o decode_from(desc, Tail(ps), k + 1)
decode(desc, ps) == decode_from(desc, ps, 2)

\* a method's parameters are named apart; the model names each by its position
ParamLists ==
    UNION {{[i \in 1 .. n |-> [name |-> i, array |-> f[i]]] : f \in [1 .. n -> BOOLEAN]} :
           n \in 0 .. MaxParams}

Generate(ps) ==
    /\ input_parameters' = ps
    /\ rendered' = call_unmarshal_inputs(ps)
    /\ env' = <<>> /\ descriptor' = <<>> /\ unmarshalled' = <<>>

\* the generated call runs in a caller whose variables hold e
Call(e) ==
    /\ rendered # <<>> /\ IsCall(rendered)
    /\ descriptor = <<>>
    /\ env' = e
    /\ descriptor' = CEval(rendered, e)
    /\ unmarshalled' = <<>>
    /\ UNCHANGED <<input_parameters, rendered>>

Unmarshal ==
    /\ descriptor # <<>>
    /\ unmarshalled = <<>>
    /\ unmarshalled' = <<decode(descriptor, input_parameters)>>
    /\ UNCHANGED <<input_parameters, rendered, env, descriptor>>

InitCall == DataportIdle /\ CallIdle /\ CapIdle

NextGenerate == \E ps \in ParamLists : Generate(ps)
NextCall ==
    /\ rendered # <<>> /\ descriptor = <<>>
    /\ \E e \in [{rendered[i] : i \in {j \in 1 .. Len(rendered) : IsExpr(rendered[j])}} -> Ptrs] :
        Call(e)
NextCallDescriptor ==
    (NextGenerate \/ NextCall \/ Unmarshal) /\ UNCHANGED <<dpvars, capvars>>

SpecCall == InitCall /\ [][NextCallDescriptor]_vars

\* ------------------------------------------------------------------------
\* Capability name table (component.all_tcb_caps.h)
\* ------------------------------------------------------------------------
MaxSlot == 5         \* the CNode has slots 1..MaxSlot and one far slot; slot 0 stays the null cap

FarSlot == 16 + MaxSlot   \* one slot whose index takes two hex digits
SlotIndices == (1 .. MaxSlot) \cup {FarSlot}
None == "None"
CapNames == {"tcb", "ep"}

\* Python's hex() as the digits after "0x", and the C integer constant read back
RECURSIVE hex(_)
hex(n) == IF n < 16 THEN <<n>> ELSE hex(n \div 16) \o <<n % 16>>
RECURSIVE CHexValue(_)
CHexValue(ds) ==
    IF Len(ds) = 0 THEN 0 ELSE 16 * CHexValue(SubSeq(ds, 1, Len(ds) - 1)) + ds[Len(ds)]

SetMin(S) == CHOOSE x \in S : \A y \in S : x <= y
SetMax(S) == CHOOSE x \in S : \A y \in S : x >= y

\* lines 8-12: one designated initialiser per slot that holds a cap
cap_names_first_only(sl) ==
    {[idx |-> hex(i), name |-> sl[i]] :
        i \in {j \in DOMAIN sl : sl[j] # None /\ \A k \in DOMAIN sl : sl[k] # None => j <= k}}

cap_names_shifted(sl) ==
    {[idx |-> hex(i + 1), name |-> sl[i]] : i \in {j \in DOMAIN sl : sl[j] # None}}

cap_names(sl) ==
    {[idx |-> hex(i), name |-> sl[i]] : i \in {j \in DOMAIN sl : sl[j] # None}}

\* lines 3-4 and 7-13: the text of the header
all_tcb_caps_h(sl, tcbs) ==
    [ALL_TCB_CAPS_MIN |-> hex(SetMin(tcbs)),
     ALL_TCB_CAPS_MAX |-> hex(SetMax(tcbs)),
     cap_names |-> cap_names(sl)]

\* what the C compiler makes of the header
ALL_TCB_CAPS_MIN == CHexValue(header.ALL_TCB_CAPS_MIN)
ALL_TCB_CAPS_MAX == CHexValue(header.ALL_TCB_CAPS_MAX)
ALL_TCB_CAPS_NUM == ALL_TCB_CAPS_MAX - ALL_TCB_CAPS_MIN + 1
\* an array with designated initialisers is as long as its highest index
\* requires; elements without an initialiser are null pointers
CArrayLen(inits) ==
    IF inits = {} THEN 0 ELSE SetMax({CHexValue(e.idx) : e \in inits}) + 1
CArray(inits) ==
    LET at == {<<CHexValue(e.idx), e.name>> : e \in inits} IN
    [i \in 0 .. CArrayLen(inits) - 1 |->
        IF \E e \in at : e[1] = i THEN (CHOOSE e \in at : e[1] = i)[2] ELSE "NULL"]

Populated(sl) == {i \in DOMAIN sl : sl[i] # None}

CapInit ==
    /\ slots \in [SlotIndices -> CapNames \cup {None}]
    \* every thread's TCB cap sits in a slot of the CNode; there is at least one thread
    /\ all_tcb_caps_slots \in SUBSET SlotIndices
    /\ all_tcb_caps_slots # {}
    /\ \A i \in all_tcb_caps_slots : slots[i] # None
    /\ header = <<>>

Build ==
    /\ header = <<>>
    /\ header' = all_tcb_caps_h(slots, all_tcb_caps_slots)
    /\ UNCHANGED <<slots, all_tcb_caps_slots>>

InitCaps == DataportIdle /\ CallIdle /\ CapInit

NextCaps == Build /\ UNCHANGED <<dpvars, callvars>>

SpecCaps == InitCaps /\ [][NextCaps]_vars

\* ------------------------------------------------------------------------
\* Properties of the dataport (checked under SpecDataport)
\* ------------------------------------------------------------------------
CeilDiv(a, b) == (a + b - 1) \div b
Called(op, c) == ret.op = op /\ ret.comp = c

\* the unwrap half of the round trip: a component resolving the pointer its own
\* wrap_ptr produced gets back the address it wrapped
UnwrapOfOwnWrap ==
    \A c \in Comps :
        (Called("unwrap", c) /\ src.comp = c) => ret.val = dataport[c].base + src.o

\* C1 as stated: for every offset o with 0 <= o < capacity (the page-rounded
\* size), wrap_ptr(base + o) succeeds with {id, o} and unwrap_ptr of that
\* result returns base + o.
C1_RoundTripCapacity ==
    /\ \A c \in Comps :
         (Called("wrap", c) /\ ret.ptr - dataport[c].base \in 0 .. dataport[c].capacity - 1)
            => (ret.rc = 0 /\ p = [id |-> dataport[c].id, offset |-> ret.ptr - dataport[c].base])
    /\ UnwrapOfOwnWrap

\* C1 amended: for every offset o with 0 <= o < sizeof(type) (the declared type
\* size, not the page-rounded capacity), wrap_ptr(base + o) succeeds with
\* {id, o} and unwrap_ptr of that result returns base + o.
C1_RoundTripTypeSize ==
    /\ \A c \in Comps :
         (Called("wrap", c) /\ ret.ptr - dataport[c].base \in 0 .. dataport[c].tsize - 1)
            => (ret.rc = 0 /\ p = [id |-> dataport[c].id, offset |-> ret.ptr - dataport[c].base])
    /\ UnwrapOfOwnWrap

C1_Witness ==
    \E c \in Comps :
        /\ Called("unwrap", c) /\ src.comp = c /\ src.o = dataport[c].tsize - 1 /\ src.o > 0
        /\ p = [id |-> dataport[c].id, offset |-> src.o]
        /\ ret.val = dataport[c].base + src.o

\* C2: for every address a below base or at or beyond base + capacity,
\* wrap_ptr(a) returns -1 and never 0.
C2_BoundsRejection ==
    \A c \in Comps :
        (Called("wrap", c)
           /\ (ret.ptr < dataport[c].base \/ ret.ptr >= dataport[c].base + dataport[c].capacity))
        => (ret.rc = -1 /\ ret.rc # 0)

C2_Witness ==
    \E c \in Comps : Called("wrap", c) /\ ret.ptr = dataport[c].base - 1 /\ ret.rc = -1

\* C3: for two regions with different identifiers, unwrap_ptr of the second
\* applied to a pointer stamped with the first's identifier returns NULL,
\* whatever the offset.
C3_RegionIsolation ==
    \A r1, r2 \in Comps :
        (dataport[r1].id # dataport[r2].id /\ Called("unwrap", r2) /\ p.id = dataport[r1].id)
        => ret.val = NULL

C3_Witness ==
    \E r1, r2 \in Comps :
        /\ dataport[r1].id # dataport[r2].id /\ Called("unwrap", r2)
        /\ p.id = dataport[r1].id /\ p.offset = dataport[r2].tsize - 1 /\ ret.val = NULL

\* C6: the backing block's capacity is ceil(sz / 4096) * 4096 for the declared
\* type size sz >= 1, a multiple of 4096 and at least sz.
C6_PageRounding ==
    \A c \in Comps :
        /\ dataport[c].tsize >= 1
        /\ dataport[c].capacity = CeilDiv(dataport[c].tsize, 4096) * 4096
        /\ dataport[c].capacity % 4096 = 0
        /\ dataport[c].capacity >= dataport[c].tsize

C6_Witness ==
    \E a, b \in Comps :
        /\ dataport[a].tsize = 4097 /\ dataport[a].capacity = 8192
        /\ dataport[b].tsize = 4095 /\ dataport[b].capacity = 4096

\* C9: every non-NULL result of unwrap_ptr lies within
\* [base, base + capacity), whatever pointer was passed in.
C9_UnwrapInsideRegion ==
    \A c \in Comps :
        (Called("unwrap", c) /\ ret.val # NULL)
        => (ret.val >= dataport[c].base /\ ret.val < dataport[c].base + dataport[c].capacity)

\* C10: two components hold the same region at different bases; when A's
\* wrap_ptr(A.base + o) succeeded with p, p is {id, o} and B's unwrap_ptr(p)
\* returns B.base + o.
C10_AddressSpaceInvariance ==
    \A a, b \in Comps :
        (/\ dataport[a].id = dataport[b].id /\ dataport[a].base # dataport[b].base
         /\ src.comp = a /\ Called("unwrap", b))
        => (/\ p = [id |-> dataport[a].id, offset |-> src.o]
            /\ ret.val = dataport[b].base + src.o)

C10_Witness ==
    \E a, b \in Comps :
        /\ dataport[a].id = dataport[b].id /\ dataport[a].base > dataport[b].base
        /\ src.comp = a /\ src.o > 0 /\ Called("unwrap", b)
        /\ ret.val = dataport[b].base + src.o

\* ------------------------------------------------------------------------
\* Properties of the call argument list (checked under SpecCall)
\* ------------------------------------------------------------------------
RECURSIVE ExpectedSlots(_)
ExpectedSlots(ps) ==
    IF ps = <<>> THEN <<>>
    ELSE (IF Head(ps).array THEN <<SzPtrVar(Head(ps).name), PtrVar(Head(ps).name)>>
                            ELSE <<PtrVar(Head(ps).name)>>) \o ExpectedSlots(Tail(ps))
NumArrays(ps) == Cardinality({i \in 1 .. Len(ps) : ps[i].array})
NumScalars(ps) == Cardinality({i \in 1 .. Len(ps) : ~ps[i].array})
ABC == <<[name |-> 1, array |-> FALSE], [name |-> 2, array |-> TRUE],
         [name |-> 3, array |-> FALSE]>>

\* C4: the emitted argument list is the size slot followed, per parameter in
\* declared order, by <name>_ptr (scalar) or <name>_sz_ptr, <name>_ptr (array);
\* it has 1 + scalars + 2 * arrays slots and no dangling separator.
C4_DescriptorLayout ==
    rendered # <<>> =>
        /\ IsCall(rendered)
        /\ CArgs(rendered) = <<SizeVar>> \o ExpectedSlots(input_parameters)
        /\ Len(CArgs(rendered)) =
              1 + NumScalars(input_parameters) + 2 * NumArrays(input_parameters)
        /\ (input_parameters = <<>> => rendered = <<Fn, LParen, SizeVar, RParen>>)

C4_Witness ==
    /\ Len(input_parameters) = 2 /\ input_parameters[1].array /\ ~input_parameters[2].array
    /\ Len(CArgs(rendered)) = 4

\* C5: decoding the descriptor of a call gives back exactly the argument
\* pointers the caller passed, in order; [scalar a, array b, scalar c] takes
\* 5 slots.
C5_DescriptorRoundTrip ==
    /\ unmarshalled # <<>> =>
          unmarshalled[1] = [i \in 1 .. Len(ExpectedSlots(input_parameters)) |->
                               env[ExpectedSlots(input_parameters)[i]]]
    /\ (descriptor # <<>> /\ input_parameters = ABC) => Len(descriptor) = 5

C5_Witness ==
    /\ input_parameters = ABC /\ Len(descriptor) = 5
    /\ unmarshalled = <<<<env[PtrVar(1)], env[SzPtrVar(2)], env[PtrVar(2)], env[PtrVar(3)]>>>>
    /\ env[SzPtrVar(2)] # env[PtrVar(2)]

\* ------------------------------------------------------------------------
\* Properties of the capability name table (checked under SpecCaps)
\* ------------------------------------------------------------------------
Built == header # <<>>
Table == CArray(header.cap_names)
DirectoryOf(t) == {i \in DOMAIN t : t[i] # "NULL"}
Directory == DirectoryOf(Table)
RangeMin == SetMin(all_tcb_caps_slots)
RangeMax == SetMax(all_tcb_caps_slots)

\* C7 as stated: the directory has an entry for exactly the populated indices
\* inside [min, max], none for an empty slot, none outside [min, max], and
\* ALL_CAPS_NUM = max - min + 1.
C7_DirectoryWithinRange ==
    Built =>
      LET t == Table IN
        /\ DirectoryOf(t) = {i \in Populated(slots) : i >= RangeMin /\ i <= RangeMax}
        /\ \A i \in DirectoryOf(t) : t[i] = slots[i]
        /\ ALL_TCB_CAPS_NUM = RangeMax - RangeMin + 1

\* C7 amended: the directory has an entry (index, owner_name) for exactly the
\* populated slots of the slot table, inside [min, max] or not, none for an
\* empty slot, and ALL_CAPS_NUM = max - min + 1.
C7_DirectoryAllPopulated ==
    Built =>
      LET t == Table IN
        /\ DirectoryOf(t) = Populated(slots)
        /\ \A i \in DirectoryOf(t) : t[i] = slots[i]
        /\ ALL_TCB_CAPS_NUM = RangeMax - RangeMin + 1

C7_Witness ==
    /\ Built /\ ALL_TCB_CAPS_MIN = 2 /\ ALL_TCB_CAPS_MAX = 5 /\ ALL_TCB_CAPS_NUM = 4
    /\ Directory = {1, 2, 5, FarSlot} /\ slots[4] = None

\* C8 as stated: the name of populated slot s is at table position s - min,
\* and every position used lies in [0, ALL_CAPS_NUM).
C8_IndexedFromMin ==
    Built =>
      LET t == Table IN
        /\ \A s \in Populated(slots) :
             /\ s - ALL_TCB_CAPS_MIN \in DOMAIN t
             /\ t[s - ALL_TCB_CAPS_MIN] = slots[s]
        /\ \A i \in DirectoryOf(t) : i >= 0 /\ i < ALL_TCB_CAPS_NUM

\* C8 amended: the name of populated slot s is at table position s (the
\* absolute slot index), every position used lies in [0, highest populated
\* slot], and the table has highest populated slot + 1 elements.
C8_IndexedAbsolute ==
    Built =>
      LET t == Table IN
        /\ \A s \in Populated(slots) : s \in DOMAIN t /\ t[s] = slots[s]
        /\ \A i \in DirectoryOf(t) : i >= 0 /\ i <= SetMax(Populated(slots))
        /\ CArrayLen(header.cap_names) = SetMax(Populated(slots)) + 1

C8_Witness ==
    /\ Built /\ ALL_TCB_CAPS_MIN = 3 /\ ALL_TCB_CAPS_NUM = 1
    /\ CArrayLen(header.cap_names) = 4 /\ Table[3] = "tcb" /\ Table[0] = "NULL"
====
